---- MODULE Spec2Model ----
(***************************************************************************)
(* Model of main.py (InsideOut Chatbot API): the startup database probe,   *)
(* the JWT helpers create_access_token / verify_token / get_current_user   *)
(* and the status routes GET /, GET /health and GET /test.                 *)
(*                                                                         *)
(* Time is counted in ticks, TicksPerSec ticks to the second, so that the  *)
(* fractional part of datetime.utcnow().timestamp() and the int() that     *)
(* PyJWT applies to "exp" are both visible.  The library calls are         *)
(* modelled by what they do (PyJWT >= 2.6, FastAPI, supabase-py):          *)
(*   jwt.decode : parse, then check the HMAC, then check "exp" if present  *)
(*                with  int(exp) <= now  meaning expired;                  *)
(*   datetime.utcnow().timestamp() : the naive UTC wall clock read back as *)
(*                local time, i.e. the epoch time minus the UTC offset;    *)
(*   FastAPI : an HTTPException becomes its status_code, any other         *)
(*                exception raised under a route becomes 500.              *)
(***************************************************************************)
EXTENDS Integers, FiniteSets, Sequences, TLC

VARIABLES
    SUPABASE_URL,    \* os.getenv("SUPABASE_URL"): None or a string
    SUPABASE_KEY,    \* os.getenv("SUPABASE_KEY"): None or a string
    COHERE_API_KEY,  \* os.getenv("COHERE_API_KEY"): None, "" or a key
    utcoffset,       \* UTC offset of the host's local time zone, in seconds
    dbUp,            \* whether the database answers a read right now
    supabase,        \* the module global: None or the client object
    pc,              \* "boot" while the module body runs, then "serving"
    probeCalls,      \* how many times initialize_database has been called
    probeOk,         \* what initialize_database returned (read once probeCalls > 0)
    now,             \* the true epoch time, in ticks
    issued,          \* the latest create_access_token call (a set of at most one)
    resp,            \* the response to the operation made at the current instant
    lastSnapshot     \* the flags of the latest GET / or GET /health response

vars == <<SUPABASE_URL, SUPABASE_KEY, COHERE_API_KEY, utcoffset, dbUp, supabase,
          pc, probeCalls, probeOk, now, issued, resp, lastSnapshot>>

config == <<SUPABASE_URL, SUPABASE_KEY, COHERE_API_KEY, utcoffset>>

(***************************************************************************)
(* Bounds and constants                                                    *)
(***************************************************************************)
None == "None"

\* resolution of the clock: ticks per second
TicksPerSec == 2
\* the clock visits the first MaxSub ticks after each half-day mark
MaxSub == 1
\* the clock makes at most MaxHalfDays jumps of half a day
MaxHalfDays == 2
\* the token lifetime in seconds
SecondsValid == 86400

HalfDay == (SecondsValid \div 2) * TicksPerSec

\* the epoch time at which the process starts
StartTime == HalfDay

\* the host runs in UTC, or twelve hours east of it
UtcOffsets == {0, SecondsValid \div 2}

JWT_SECRET == "default-secret"
OtherSecret == "other-secret"

UserIds == {"u1", "u2"}
Usernames == {"alice"}

(***************************************************************************)
(* Tokens                                                                  *)
(***************************************************************************)
NoClaim == [user_id |-> "", username |-> "", has_exp |-> FALSE, exp |-> 0]

\* HMAC-SHA256 over the payload: it binds the key and the signed payload
HS256(key, payload) == [key |-> key, over |-> payload]

jwt_encode(payload, key) ==
    [parses |-> TRUE, payload |-> payload, sig |-> HS256(key, payload)]

\* a string that is not a three-segment JWT
Garbage == [parses |-> FALSE, payload |-> NoClaim, sig |-> HS256("", NoClaim)]

\* int(x) of a non-negative time x given in ticks, again in ticks
IntPart(x) == (x \div TicksPerSec) * TicksPerSec

Ok(claim) == [ok |-> TRUE, err |-> "", exc |-> "", status_code |-> 0, claim |-> claim]
Raise(exc, err, code) ==
    [ok |-> FALSE, err |-> err, exc |-> exc, status_code |-> code, claim |-> NoClaim]

NoResult == Raise("", "", 0)

\* PyJWT before 2.6: both sides whole seconds, expired only when int(exp) < int(now)
jwt_decode_v1(token, key, t) ==
    IF ~token.parses
    THEN Raise("jwt.DecodeError", "Malformed", 0)
    ELSE IF token.sig # HS256(key, token.payload)
    THEN Raise("jwt.InvalidSignatureError", "InvalidSignature", 0)
    ELSE IF token.payload.has_exp /\ IntPart(token.payload.exp) < IntPart(t)
    THEN Raise("jwt.ExpiredSignatureError", "Expired", 0)
    ELSE Ok(token.payload)

jwt_decode(token, key, t) ==
    IF ~token.parses
    THEN Raise("jwt.DecodeError", "Malformed", 0)
    ELSE IF token.sig # HS256(key, token.payload)
    THEN Raise("jwt.InvalidSignatureError", "InvalidSignature", 0)
    ELSE IF token.payload.has_exp /\ IntPart(token.payload.exp) <= t
    THEN Raise("jwt.ExpiredSignatureError", "Expired", 0)
    ELSE Ok(token.payload)

\* datetime.utcnow().timestamp() at epoch time t on a host off seconds east of UTC
utcnow_timestamp(t, off) == t - off * TicksPerSec

create_access_token(user_id, username, t, off) ==
    LET payload == [user_id |-> user_id, username |-> username, has_exp |-> TRUE,
                    exp |-> utcnow_timestamp(t, off) + SecondsValid * TicksPerSec]
    IN  jwt_encode(payload, JWT_SECRET)

verify_token(token, t) == jwt_decode(token, JWT_SECRET, t)

\* credentials: [present |-> BOOLEAN, credentials |-> token]
NoCredentials == [present |-> FALSE, credentials |-> Garbage]
Bearer(token) == [present |-> TRUE, credentials |-> token]

\* a guard that reports every failure as missing credentials
get_current_user_masking(credentials, t) ==
    IF ~credentials.present \/ ~verify_token(credentials.credentials, t).ok
    THEN Raise("HTTPException", "MissingCredentials", 401)
    ELSE verify_token(credentials.credentials, t)

get_current_user(credentials, t) ==
    IF ~credentials.present
    THEN Raise("HTTPException", "MissingCredentials", 401)
    ELSE verify_token(credentials.credentials, t)

\* the status FastAPI answers with when a route's dependency ends in result r
http_status(r) ==
    IF r.ok THEN 200
    ELSE IF r.exc = "HTTPException" THEN r.status_code
    ELSE 500

(***************************************************************************)
(* Status reporter                                                         *)
(***************************************************************************)
\* a reporter that looks at the database on every request
database_connected_live == supabase # None /\ dbUp

database_connected == supabase # None
ai_available == COHERE_API_KEY # None

root_response ==
    [op |-> "GET /", at |-> now, http |-> 200,
     body |-> [success |-> TRUE,
               message |-> "InsideOut Chatbot API is running on Railway!",
               database_connected |-> database_connected,
               ai_available |-> ai_available]]

\* a health route that answers 503 when the database flag is down
health_response_503 ==
    [op |-> "GET /health", at |-> now,
     http |-> IF database_connected THEN 200 ELSE 503,
     body |-> [status |-> "ok",
               database_connected |-> database_connected,
               ai_available |-> ai_available,
               time |-> now]]

health_response ==
    [op |-> "GET /health", at |-> now, http |-> 200,
     body |-> [status |-> "ok",
               database_connected |-> database_connected,
               ai_available |-> ai_available,
               time |-> now]]

test_response ==
    [op |-> "GET /test", at |-> now, http |-> 200,
     body |-> "<h1>Railway API works</h1>"]

\* what a client remembers of a status response
Flags(r) ==
    [path |-> r.op, http |-> r.http,
     database_connected |-> r.body.database_connected,
     ai_available |-> r.body.ai_available]

NoSnapshot ==
    [path |-> "", http |-> 0, database_connected |-> FALSE, ai_available |-> FALSE]

(***************************************************************************)
(* Initial state: the environment is read, nothing has run yet             *)
(***************************************************************************)
NoResp == [op |-> "", at |-> 0, http |-> 0]

Init ==
    /\ SUPABASE_URL \in {None, "https://db.example"}
    /\ SUPABASE_KEY \in {None, "service-key"}
    /\ COHERE_API_KEY \in {None, "", "cohere-key"}
    /\ utcoffset \in UtcOffsets
    /\ dbUp \in BOOLEAN
    /\ supabase = None
    /\ pc = "boot"
    /\ probeCalls = 0
    /\ probeOk = FALSE
    /\ now = StartTime
    /\ issued = {}
    /\ resp = NoResp
    /\ lastSnapshot = NoSnapshot

(***************************************************************************)
(* Startup                                                                 *)
(***************************************************************************)
\* create_client raises when the URL or the key is missing
create_client_raises == SUPABASE_URL = None \/ SUPABASE_KEY = None

\* a startup without the try/except: the exception ends the process
initialize_database_uncaught ==
    /\ pc = "boot"
    /\ probeCalls' = probeCalls + 1
    /\ IF create_client_raises
       THEN /\ supabase' = supabase
            /\ probeOk' = FALSE
            /\ pc' = "crashed"
       ELSE /\ supabase' = "Client"
            /\ probeOk' = dbUp
            /\ pc' = IF dbUp THEN "serving" ELSE "crashed"
    /\ UNCHANGED <<config, dbUp, now, issued, resp, lastSnapshot>>

initialize_database ==
    /\ pc = "boot"
    /\ probeCalls' = probeCalls + 1
    /\ IF create_client_raises
       THEN /\ supabase' = supabase
            /\ probeOk' = FALSE
       ELSE /\ supabase' = "Client"
            /\ probeOk' = dbUp
    /\ pc' = "serving"
    /\ UNCHANGED <<config, dbUp, now, issued, resp, lastSnapshot>>

(***************************************************************************)
(* Token operations                                                        *)
(***************************************************************************)
IssuedTokens == {i.token : i \in issued}

\* the token strings a caller may present
TokenInputs ==
    IssuedTokens
    \cup {[tok EXCEPT !.payload.exp = @ + HalfDay] : tok \in IssuedTokens}
    \cup {jwt_encode(tok.payload, OtherSecret) : tok \in IssuedTokens}
    \cup {jwt_encode([tok.payload EXCEPT !.has_exp = FALSE, !.exp = 0], JWT_SECRET) :
             tok \in IssuedTokens}
    \cup {Garbage}

Issue(user_id, username) ==
    /\ pc = "serving"
    /\ LET token == create_access_token(user_id, username, now, utcoffset)
       IN  /\ issued' = {[token |-> token, at |-> now,
                                      user_id |-> user_id, username |-> username]}
           /\ resp' = [op |-> "issue", at |-> now, cred |-> Bearer(token),
                       result |-> Ok(token.payload), http |-> 0]
    /\ UNCHANGED <<config, dbUp, supabase, pc, probeCalls, probeOk, now, lastSnapshot>>

Verify(token) ==
    /\ pc = "serving"
    /\ resp' = [op |-> "verify", at |-> now, cred |-> Bearer(token),
                result |-> verify_token(token, now), http |-> 0]
    /\ UNCHANGED <<config, dbUp, supabase, pc, probeCalls, probeOk, now, issued,
                   lastSnapshot>>

\* a route declaring Depends(get_current_user) receives a request
Authenticate(credentials) ==
    /\ pc = "serving"
    /\ LET r == get_current_user(credentials, now)
       IN  resp' = [op |-> "auth", at |-> now, cred |-> credentials,
                    result |-> r, http |-> http_status(r)]
    /\ UNCHANGED <<config, dbUp, supabase, pc, probeCalls, probeOk, now, issued,
                   lastSnapshot>>

(***************************************************************************)
(* Routes                                                                  *)
(***************************************************************************)
root ==
    /\ pc = "serving"
    /\ resp' = root_response
    /\ lastSnapshot' = Flags(root_response)
    /\ UNCHANGED <<config, dbUp, supabase, pc, probeCalls, probeOk, now, issued>>

health ==
    /\ pc = "serving"
    /\ resp' = health_response
    /\ lastSnapshot' = Flags(health_response)
    /\ UNCHANGED <<config, dbUp, supabase, pc, probeCalls, probeOk, now, issued>>

test ==
    /\ pc = "serving"
    /\ resp' = test_response
    /\ UNCHANGED <<config, dbUp, supabase, pc, probeCalls, probeOk, now, issued,
                   lastSnapshot>>

(***************************************************************************)
(* Environment: the clock and the database.  A response is delivered at    *)
(* the instant of its request: resp is emptied when the clock moves on.    *)
(***************************************************************************)
Tick ==
    /\ (now % HalfDay) < MaxSub
    /\ now' = now + 1
    /\ resp' = NoResp
    /\ UNCHANGED <<config, dbUp, supabase, pc, probeCalls, probeOk, issued, lastSnapshot>>

\* about half a day passes: the clock lands within MaxSub ticks of a half-day mark
AdvanceHalfDay ==
    /\ \E d \in (HalfDay - MaxSub)..HalfDay :
          /\ ((now + d) % HalfDay) <= MaxSub
          /\ now + d <= StartTime + MaxHalfDays * HalfDay + MaxSub
          /\ now' = now + d
    /\ resp' = NoResp
    /\ UNCHANGED <<config, dbUp, supabase, pc, probeCalls, probeOk, issued, lastSnapshot>>

DbOutage ==
    /\ dbUp
    /\ dbUp' = FALSE
    /\ UNCHANGED <<config, supabase, pc, probeCalls, probeOk, now, issued, resp,
                   lastSnapshot>>

DbRecovery ==
    /\ ~dbUp
    /\ dbUp' = TRUE
    /\ UNCHANGED <<config, supabase, pc, probeCalls, probeOk, now, issued, resp,
                   lastSnapshot>>

Next ==
    \/ initialize_database
    \/ \E u \in UserIds, n \in Usernames : Issue(u, n)
    \/ \E token \in TokenInputs : Verify(token)
    \/ \E token \in TokenInputs : Authenticate(Bearer(token))
    \/ Authenticate(NoCredentials)
    \/ root
    \/ health
    \/ test
    \/ Tick
    \/ AdvanceHalfDay
    \/ DbOutage
    \/ DbRecovery

Spec == Init /\ [][Next]_vars

\* line 87 runs as part of the module body: startup is not left pending forever
FairSpec == Spec /\ WF_vars(initialize_database)

(***************************************************************************)
(* Properties                                                              *)
(***************************************************************************)
Presented == resp.cred.credentials

SignatureVerifies(token) ==
    token.parses /\ token.sig = HS256(JWT_SECRET, token.payload)

IssuedNow == {i \in issued : i.at = resp.at}

\* C1: verify returns a claim exactly when the signature verifies under the
\* secret and expires_at is strictly greater than the verification time.
C1_ValidIffSignedAndUnexpired ==
    resp.op = "verify" =>
        (resp.result.ok <=>
            /\ SignatureVerifies(Presented)
            /\ Presented.payload.has_exp
            /\ Presented.payload.exp > resp.at)

\* C2: verifying a token at the time it was issued returns the user_id and
\* username given to issue and expires_at = issue time + 86400 seconds.
C2_RoundTrip ==
    resp.op = "verify" =>
        \A i \in IssuedNow :
            i.token = Presented =>
                /\ resp.result.ok
                /\ resp.result.claim.user_id = i.user_id
                /\ resp.result.claim.username = i.username
                /\ resp.result.claim.has_exp
                /\ resp.result.claim.exp = i.at + SecondsValid * TicksPerSec

\* C3: verifying an issued token at a time past its expires_at fails with
\* Expired, with no other error and with no claim.
C3_ExpiredPastExpiry ==
    (/\ resp.op = "verify"
     /\ Presented \in IssuedTokens
     /\ resp.at > Presented.payload.exp)
        => (~resp.result.ok /\ resp.result.err = "Expired"
            /\ resp.result.claim = NoClaim)

C3_Witness ==
    /\ resp.op = "verify"
    /\ Presented \in IssuedTokens
    /\ resp.at > Presented.payload.exp

\* C4: the guard fails with MissingCredentials when no credentials are
\* present, and otherwise returns or raises exactly what verify does.
C4_GuardDelegates ==
    resp.op = "auth" =>
        IF ~resp.cred.present
        THEN ~resp.result.ok /\ resp.result.err = "MissingCredentials"
        ELSE resp.result = verify_token(Presented, resp.at)

C4_Witness ==
    /\ resp.op = "auth"
    /\ resp.cred.present
    /\ resp.result.err = "Expired"

\* C5: every token error raised under the guard reaches the client as 401.
C5_TokenErrorsAre401 ==
    (resp.op = "auth" /\ ~resp.result.ok) => resp.http = 401

\* C6: once the startup probe has failed, every snapshot reports
\* database_connected = false.
C6_FailedProbeReportsDisconnected ==
    (probeCalls > 0 /\ ~probeOk /\ lastSnapshot.path # "")
        => ~lastSnapshot.database_connected

C8_SnapshotIsStale ==
    [][lastSnapshot.path # "" =>
          lastSnapshot'.database_connected = lastSnapshot.database_connected]_vars

C8_Witness ==
    /\ resp.op \in {"GET /", "GET /health"}
    /\ resp.body.database_connected
    /\ ~dbUp

\* C9: ai_available is true exactly when the AI credential is a non-empty
\* string: false when unset and false when set to the empty string.
C9_AiAvailableIffNonEmpty ==
    lastSnapshot.path # "" =>
        (lastSnapshot.ai_available <=> COHERE_API_KEY \notin {None, ""})

\* C10: GET / and GET /health answer 200 in every state; degradation shows
\* only in the two booleans.
C10_StatusAlways200 ==
    /\ resp.op \in {"GET /", "GET /health"} => resp.http = 200
    /\ lastSnapshot.path # "" => lastSnapshot.http = 200

C10_Witness ==
    /\ resp.op = "GET /health"
    /\ ~resp.body.database_connected
    /\ ~resp.body.ai_available

====
